---------------------------- MODULE Spec2Model ----------------------------
(***************************************************************************)
(* A model of ulog: the tag-scoped level registry, the swappable sink, the *)
(* dispatch gate (ULOG_LEVEL_LOCAL -> ULOG_LEVEL -> ulog_write), the       *)
(* platform shims (FreeRTOS, POSIX, no-OS): their locks, ulog_timestamp    *)
(* and ulog_system_timestamp, the early and DRAM log macros, and the       *)
(* buffer dump formatters: their chunking and the rendering of a chunk.    *)
(*                                                                         *)
(* ulog.c (ulog_level_set, ulog_level_get, ulog_set_vprintf, ulog_write,   *)
(* ulog_writev) is not among the source files: only its declarations in    *)
(* ulog.h are.  Those operations are modelled from the specification text  *)
(* (sections 3, 4.1, 4.2, 4.3); everything else is modelled from the code. *)
(***************************************************************************)
EXTENDS Integers, Sequences, FiniteSets, TLC

(***************************************************************************)
(* ulog_level_t (ulog.h)                                                   *)
(***************************************************************************)
ULOG_NONE == 0
ULOG_ERROR == 1
ULOG_WARN == 2
ULOG_INFO == 3
ULOG_DEBUG == 4
ULOG_VERBOSE == 5

Severity == ULOG_NONE .. ULOG_VERBOSE

\* (mutant) another configured default
CONFIG_LOG_DEFAULT_LEVEL_Info == ULOG_INFO

\* ulog_cfg.h
CONFIG_LOG_DEFAULT_LEVEL == ULOG_VERBOSE
CONFIG_LOG_MAXIMUM_LEVEL == 5

(***************************************************************************)
(* Bounds of the model                                                     *)
(***************************************************************************)
\* number of slots of the level registry (the spec's "fixed capacity")
TagCapacity == 1

\* the tags log calls and level calls are made with; "*" is the wildcard
WILDCARD == "*"
Tags == {"a", "b"}
AllTags == Tags \cup {WILDCARD}

\* the output functions that can be installed; "vprintf" is the initial one
Sinks == {"vprintf", "f1", "f2"}

NoSink == "none"
NeverSet == -1

VARIABLES
    s_log_tags,          \* the registry: a sequence of [tag, level] entries
    ulog_default_level,  \* the wildcard default (extern ulog_default_level)
    s_log_print_func,    \* the active sink
    last,                \* history: the most recent API call, its inputs, the
                         \* state it started from and its results
    last_set,            \* history: per tag, the level of the most recent
                         \* ulog_level_set(tag, .), NeverSet when there was none
    prev_swap,           \* history: the call before `last`, when it was
                         \* ulog_set_vprintf
    restored             \* history: the sink a completed swap/swap-back pair
                         \* restored, until the next ulog_set_vprintf

regvars == <<s_log_tags, ulog_default_level, s_log_print_func,
             last, last_set, prev_swap, restored>>

(***************************************************************************)
(* Platform shim and concurrent dispatch                                   *)
(***************************************************************************)
\* the execution contexts that log concurrently
NumCtx == 2
Ctx == 1 .. NumCtx

Platforms == {"rtos", "posix", "noos"}

NULL == 0

VARIABLES
    platform,     \* the shim the build links: ulog_freertos.c, ulog_linux.c
                  \* or ulog_noos.c
    sched,        \* xTaskGetSchedulerState(): "NOT_STARTED" or "RUNNING"
    s_log_mutex,  \* ulog_freertos.c: the mutex handle, NULL until created;
                  \* the mutex context c creates has handle c
    owner,        \* per FreeRTOS mutex handle, the context that took it,
                  \* NULL when it is free
    mutex1,       \* ulog_linux.c: the context that locked mutex1, else NULL
    s_lock,       \* ulog_noos.c: the lock flag
    pc,           \* per context, where its dispatch stands
    cur,          \* per context, its current or last dispatch
    bad_give      \* history: a mutex was released by a context that did not
                  \* hold it

lockvars == <<platform, sched, s_log_mutex, owner, mutex1, s_lock,
              pc, cur, bad_give>>

(***************************************************************************)
(* Buffer dump formatters (ulog_buffers.c)                                 *)
(***************************************************************************)
BYTES_PER_LINE == 16

\* uint16_t buff_len
UINT16_MAX == 65535

\* the buffer lengths tried: every length up to MaxBuffLen, and the largest
MaxBuffLen == 40
BuffLens == (0 .. MaxBuffLen) \cup {UINT16_MAX}

Formatters == {"hex", "char", "hexdump"}

VARIABLES
    buf_pc,      \* "idle", "loop" (inside do ... while) or "done" (returned)
    buf_fmt,     \* the formatter called
    buf_level,   \* its log_level argument
    buf_n,       \* its buff_len argument
    buff_len,    \* the bytes left
    buf_off,     \* buffer - (buffer at the call)
    buf_lines,   \* history: the ULOG_LEVEL calls made so far
    buf_sunk,    \* history: those of them that reached the sink
    buf_last,    \* history: the chunk of the latest ULOG_LEVEL call
    buf_disp     \* history: how the latest ULOG_LEVEL call was dispatched

bufvars == <<buf_pc, buf_fmt, buf_level, buf_n, buff_len, buf_off,
             buf_lines, buf_sunk, buf_last, buf_disp>>

\* the buffer lengths of the dumps requested through the macros: none, and
\* one more than a line
DumpLens == {0, BYTES_PER_LINE + 1}

\* the dumps are made under tag "a"; the tags whose threshold is set meanwhile
DumpTags == {"a", "*"}

(***************************************************************************)
(* 32-bit unsigned values (uint32_t), kept as two 16-bit halves <<hi, lo>>  *)
(***************************************************************************)
W16 == 65536

U32(hi, lo) == <<hi, lo>>

\* a + b and a * k on uint32_t (k small), wrapping at 2^32
Add32(a, b) ==
    <<(a[1] + b[1] + (a[2] + b[2]) \div W16) % W16, (a[2] + b[2]) % W16>>
MulK32(a, k) ==
    <<(a[1] * k + (a[2] * k) \div W16) % W16, (a[2] * k) % W16>>

\* a < b and a <= b on uint32_t
Lt32(a, b) == a[1] < b[1] \/ (a[1] = b[1] /\ a[2] < b[2])
Le32(a, b) == a = b \/ Lt32(a, b)

\* timestamp % 10 and timestamp / 10 on uint32_t
Mod10(a) == ((a[1] % 10) * W16 + a[2]) % 10
Div10(a) == <<a[1] \div 10, ((a[1] % 10) * W16 + a[2]) \div 10>>

(***************************************************************************)
(* Wall-clock timestamp string (ulog_freertos.c, ulog_system_timestamp)    *)
(***************************************************************************)
\* sizeof(buffer)
BufferSize == 18

NUL == 0

\* the values ulog_early_timestamp() is made to return: 0, 7, 10, 42, 305,
\* 65536, 1000000000, 2147483648, 4294967295
EarlyValues ==
    {U32(0, 0), U32(0, 7), U32(0, 10), U32(0, 42), U32(0, 305), U32(1, 0),
     U32(15258, 51712), U32(32768, 0), U32(65535, 65535)}

\* the times of day gettimeofday/localtime_r are made to return
TimesOfDay ==
    {[hour |-> 0, min |-> 0, sec |-> 0, msec |-> 0],
     [hour |-> 9, min |-> 5, sec |-> 7, msec |-> 42],
     [hour |-> 23, min |-> 59, sec |-> 59, msec |-> 999]}

\* the calls of ulog_system_timestamp followed
MaxClockCalls == 4

VARIABLES
    buffer,      \* static char buffer[18], as 18 character codes
    clock_calls, \* history: the calls made so far
    clock_v,     \* history: what ulog_early_timestamp() returned to the
                 \* latest Pre-Scheduler call
    clock_ret,   \* history: the string the latest call returned, that is the
                 \* characters of buffer before its first NUL
    clock_pre,   \* history: the latest call took the Pre-Scheduler branch
    bufferLock,  \* static _lock_t bufferLock: NULL, or the context holding it
    st_pc,       \* per context, where its ULOG_LEVEL call with the wall-clock
                 \* timestamp stands
    st_t,        \* per context, the time of day its call has read
    st_holder,   \* NULL, or the context inside the dispatch lock of ulog_write
    st_read      \* history: per context, what was read through the pointer
                 \* its call returned

clkvars == <<buffer, clock_calls, clock_v, clock_ret, clock_pre,
             bufferLock, st_pc, st_t, st_holder, st_read>>

(***************************************************************************)
(* Millisecond timestamp (ulog_freertos.c, ulog_timestamp)                 *)
(***************************************************************************)
\* (1000 / configTICK_RATE_HZ) with configTICK_RATE_HZ = 100
MsPerTick == 10

\* the cores a caller can run on; the base is latched on core 0
Cores == {0, 1}

\* the readings of the cycle counter behind ulog_early_timestamp(), in ms:
\* 0, 5, 9
EarlyReadings == {U32(0, 0), U32(0, 5), U32(0, 9)}

\* the values of the OS tick count: 0, 1, 2, and the two around the point
\* where tick_count * 10 passes 2^32: 429496729, 429496730
TickCounts ==
    {U32(0, 0), U32(0, 1), U32(0, 2), U32(6553, 39321), U32(6553, 39322)}

VARIABLES
    base,          \* static uint32_t base
    early_now,     \* what ulog_early_timestamp() returns now
    tick_count,    \* what xTaskGetTickCount() returns now
    ts_pc,         \* per context, where its ulog_timestamp() call stands
    ts_core,       \* per context, xPortGetCoreID() of its call
    ts_e,          \* per context, the early timestamp its call has read
    ts_ret,        \* per context, what its latest call returned
    ts_active,     \* per context, its latest call took the Scheduler-Active
                   \* path and has returned
    ts_floor,      \* history: per context, the largest result a
                   \* Scheduler-Active call had returned when its call began
    ts_max,        \* history: the largest result returned so far by a
                   \* Scheduler-Active call
    base_relatched,  \* history: base was written while it was non-zero
    base_writers     \* history: the cores of the calls that wrote base

tsvars == <<base, early_now, tick_count, ts_pc, ts_core, ts_e, ts_ret,
            ts_active, ts_floor, ts_max, base_relatched, base_writers>>

(***************************************************************************)
(* Rendering of one chunk by the buffer dump formatters (ulog_buffers.c)   *)
(***************************************************************************)
\* the byte values tried: 0x00, 0x0a, 'A', 'B', 'C', 0x80, 0xff
ByteValues == {0, 10, 65, 66, 67, 128, 255}

\* every chunk of up to MaxChunkLen bytes is tried
MaxChunkLen == 2

\* the chunks rendered: the short ones, three of the specification's
\* examples, and chunks of 7, 9 and 16 equal bytes
Chunks ==
    UNION {[1 .. n -> ByteValues] : n \in 1 .. MaxChunkLen}
    \cup {<<0, 255, 65>>, <<65, 66, 67>>, <<65, 0, 66>>}
    \cup {[i \in 1 .. n |-> b] : n \in {7, 9, BYTES_PER_LINE}, b \in ByteValues}

\* what "%p" prints for the chunk's address: "0x3ffb0010" where pointers
\* have 32 bits, "0x7ffc5a3b2c10" where they have 64
PointerTexts ==
    {<<48, 120, 51, 102, 102, 98, 48, 48, 49, 48>>,
     <<48, 120, 55, 102, 102, 99, 53, 97, 51, 98, 50, 99, 49, 48>>}

\* char temp_buffer[BYTES_PER_LINE + 3]; char hex_buffer[3 * BYTES_PER_LINE + 1];
\* char char_buffer[BYTES_PER_LINE + 1];
\* char hd_buffer[10 + 3 + BYTES_PER_LINE * 3 + 3 + BYTES_PER_LINE + 1 + 1];
TempBufferSize == BYTES_PER_LINE + 3
HexBufferSize == 3 * BYTES_PER_LINE + 1
CharBufferSize == BYTES_PER_LINE + 1
HdBufferSize == 10 + 3 + BYTES_PER_LINE * 3 + 3 + BYTES_PER_LINE + 1 + 1

\* the local buffer formatter f builds its line in
LineBufferSize(f) ==
    IF f = "hex" THEN HexBufferSize
    ELSE IF f = "char" THEN CharBufferSize
    ELSE HdBufferSize

\* memcpy(temp_buffer, buffer, (bytes_cur_line + 3) / 4 * 4): the bytes copied
StagedCopyLen(bytes_cur_line) == ((bytes_cur_line + 3) \div 4) * 4

VARIABLES
    rend_pc,      \* "idle", or the loop the formatter is in, or "emit"
    rend_fmt,     \* the formatter
    chunk,        \* ptr_line[0 .. bytes_cur_line - 1], as values 0 .. 255
    char_signed,  \* whether plain char is signed in this build
    isprint_neg,  \* what isprint answers for a negative argument
    rend_addr,    \* what "%p" prints for buffer
    rend_i,       \* the loop index i
    line_buf,     \* hex_buffer, char_buffer or hd_buffer: the bytes written
                  \* from its start on, the last NUL included
    ptr_hd,       \* ptr_hd - hd_buffer
    rend_msg      \* history: the string the chunk's line was dispatched
                  \* with, empty until then

rendvars == <<rend_pc, rend_fmt, chunk, char_signed, isprint_neg, rend_addr,
              rend_i, line_buf, ptr_hd, rend_msg>>

vars == <<regvars, lockvars, bufvars, clkvars, tsvars, rendvars>>

\* what the steps of each part leave alone
nonregvars == <<lockvars, bufvars, clkvars, tsvars, rendvars>>
nonlockvars == <<regvars, bufvars, clkvars, tsvars, rendvars>>
nonbufvars == <<regvars, lockvars, clkvars, tsvars, rendvars>>
nonclkvars == <<regvars, bufvars, tsvars, rendvars>>
nontsvars == <<regvars, bufvars, clkvars, rendvars>>
nonrendvars == <<regvars, lockvars, bufvars, clkvars, tsvars>>

(***************************************************************************)
(* Level registry (spec 3, 4.1)                                            *)
(***************************************************************************)
\* index of the entry of `tag` in the list `tags`, 0 when there is none
RECURSIVE FindTag(_, _, _)
FindTag(tags, tag, i) ==
    IF i > Len(tags) THEN 0
    ELSE IF tags[i].tag = tag THEN i
    ELSE FindTag(tags, tag, i + 1)

HasEntry(tags, tag) == FindTag(tags, tag, 1) # 0

\* get(tag): the tag's explicit threshold if present, else the wildcard default
ulog_level_get(tags, dflt, tag) ==
    IF HasEntry(tags, tag) THEN tags[FindTag(tags, tag, 1)].level ELSE dflt

\* (mutant) appends without looking for the tag's entry
SetEntry_Append(tags, tag, level) ==
    IF Len(tags) < TagCapacity
    THEN Append(tags, [tag |-> tag, level |-> level])
    ELSE tags

\* set(tag, level) on the list of explicit entries: update in place, else
\* append while there is room, else ignore
SetEntry(tags, tag, level) ==
    IF HasEntry(tags, tag)
    THEN [tags EXCEPT ![FindTag(tags, tag, 1)].level = level]
    ELSE IF Len(tags) < TagCapacity
    THEN Append(tags, [tag |-> tag, level |-> level])
    ELSE tags

\* (mutant) "*" drops every explicit entry
ulog_level_set_tags_Clear(tags, tag, level) ==
    IF tag = WILDCARD THEN <<>> ELSE SetEntry(tags, tag, level)

\* set(tag, level): "*" sets the process-wide default
ulog_level_set_tags(tags, tag, level) ==
    IF tag = WILDCARD THEN tags ELSE SetEntry(tags, tag, level)

ulog_level_set_default(dflt, tag, level) ==
    IF tag = WILDCARD THEN level ELSE dflt

(***************************************************************************)
(* Sink registry (spec 4.3)                                                *)
(***************************************************************************)
\* (mutant) returns the sink just installed
ulog_set_vprintf_ret_New(active, func) == func

\* set_sink(new) -> old: the value returned
ulog_set_vprintf_ret(active, func) == active

\* set_sink(new) -> old: the sink active afterwards
ulog_set_vprintf_new(active, func) == func

(***************************************************************************)
(* Dispatch gate: the macros of ulog.h, then ulog_write (spec 4.2)         *)
(***************************************************************************)
\* (mutant) a strict comparison
ULOG_LEVEL_LOCAL_Strict(ceil, level) == ceil > level

\* ULOG_LEVEL_LOCAL: if ( LOG_LOCAL_LEVEL >= level ) ULOG_LEVEL(level, ...)
ULOG_LEVEL_LOCAL(ceil, level) == ceil >= level

\* (mutant) every level is dispatched as it is given
ULOG_LEVEL_Identity(level) == level

\* ULOG_LEVEL(level, tag, format, ...): the level ulog_write is called with
ULOG_LEVEL(level) ==
    IF level = ULOG_ERROR THEN ULOG_ERROR
    ELSE IF level = ULOG_WARN THEN ULOG_WARN
    ELSE IF level = ULOG_DEBUG THEN ULOG_DEBUG
    ELSE IF level = ULOG_VERBOSE THEN ULOG_VERBOSE
    ELSE ULOG_INFO

\* ULOG_LEVEL(level, tag, format, ...): the letter of LOG_FORMAT(letter, format)
\* in the branch taken
ULOG_LEVEL_Letter(level) ==
    IF level = ULOG_ERROR THEN "E"
    ELSE IF level = ULOG_WARN THEN "W"
    ELSE IF level = ULOG_DEBUG THEN "D"
    ELSE IF level = ULOG_VERBOSE THEN "V"
    ELSE "I"

\* ulog_write, step 2: the line passes when level <= get(tag)
ShouldOutput(tags, dflt, level, tag) == level <= ulog_level_get(tags, dflt, tag)

(***************************************************************************)
(* The API called from one execution context, one whole call per step      *)
(***************************************************************************)
NoSwap == [func |-> NoSink, old |-> NoSink, pre_func |-> NoSink]

\* the record of a call made in the current state
Call(op, tag, level, ceil, func, ret, old, sink_calls, sink_used, ts_reads) ==
    [op |-> op, tag |-> tag, level |-> level, ceil |-> ceil, func |-> func,
     ret |-> ret, old |-> old,
     sink_calls |-> sink_calls, sink_used |-> sink_used, ts_reads |-> ts_reads,
     pre_tags |-> s_log_tags, pre_default |-> ulog_default_level,
     pre_func |-> s_log_print_func,
     pre_last_set |-> IF tag \in AllTags THEN last_set[tag] ELSE NeverSet]

NoCall ==
    [op |-> "none", tag |-> "", level |-> 0, ceil |-> 0, func |-> NoSink,
     ret |-> 0, old |-> NoSink,
     sink_calls |-> 0, sink_used |-> NoSink, ts_reads |-> 0,
     pre_tags |-> <<>>, pre_default |-> 0, pre_func |-> NoSink,
     pre_last_set |-> NeverSet]

InitReg ==
    /\ s_log_tags = <<>>
    /\ ulog_default_level = CONFIG_LOG_DEFAULT_LEVEL
    /\ s_log_print_func = "vprintf"
    /\ last = NoCall
    /\ last_set = [t \in AllTags |-> NeverSet]
    /\ prev_swap = NoSwap
    /\ restored = NoSink

\* ulog_level_set(tag, level)
LevelSet(tag, level) ==
    /\ s_log_tags' = ulog_level_set_tags(s_log_tags, tag, level)
    /\ ulog_default_level' = ulog_level_set_default(ulog_default_level, tag, level)
    /\ last' = Call("set", tag, level, 0, NoSink, 0, NoSink, 0, NoSink, 0)
    /\ last_set' = [last_set EXCEPT ![tag] = level]
    /\ prev_swap' = NoSwap
    /\ UNCHANGED <<s_log_print_func, restored>>
    /\ UNCHANGED nonregvars

\* ulog_level_get(tag)
LevelGet(tag) ==
    /\ last' = Call("get", tag, 0, 0, NoSink,
                    ulog_level_get(s_log_tags, ulog_default_level, tag),
                    NoSink, 0, NoSink, 0)
    /\ prev_swap' = NoSwap
    /\ UNCHANGED <<s_log_tags, ulog_default_level, s_log_print_func,
                   last_set, restored>>
    /\ UNCHANGED nonregvars

\* ulog_set_vprintf(func)
SetVprintf(func) ==
    /\ s_log_print_func' = ulog_set_vprintf_new(s_log_print_func, func)
    /\ last' = Call("set_vprintf", "", 0, 0, func, 0,
                    ulog_set_vprintf_ret(s_log_print_func, func),
                    0, NoSink, 0)
    /\ prev_swap' = IF last.op = "set_vprintf"
                    THEN [func |-> last.func, old |-> last.old,
                          pre_func |-> last.pre_func]
                    ELSE NoSwap
    /\ restored' = IF last.op = "set_vprintf" /\ func = last.old
                   THEN last.pre_func ELSE NoSink
    /\ UNCHANGED <<s_log_tags, ulog_default_level, last_set>>
    /\ UNCHANGED nonregvars

\* ULOG_LEVEL_LOCAL(level, tag, ...) at a call site compiled with
\* LOG_LOCAL_LEVEL = ceil: the ceiling check, the timestamp argument of
\* ULOG_LEVEL, then ulog_write (threshold check, lock, sink, unlock; with one
\* context the lock is free at the call and free again on return)
LogCall(level, tag, ceil) ==
    LET passed == ULOG_LEVEL_LOCAL(ceil, level)
        emit == passed /\ ShouldOutput(s_log_tags, ulog_default_level,
                                       ULOG_LEVEL(level), tag)
    IN  /\ last' = Call("log", tag, level, ceil, NoSink, 0, NoSink,
                        IF emit THEN 1 ELSE 0,
                        IF emit THEN s_log_print_func ELSE NoSink,
                        IF passed THEN 1 ELSE 0)
        /\ prev_swap' = NoSwap
        /\ UNCHANGED <<s_log_tags, ulog_default_level, s_log_print_func,
                       last_set, restored>>
        /\ UNCHANGED nonregvars

\* the levels of the five macros of each family (E, W, I, D, V)
MacroLevels == ULOG_ERROR .. ULOG_VERBOSE

\* (mutant) the BOOTLOADER_BUILD variant: the ceiling alone
ULOG_EARLY_ENABLED_Bootloader(ceil, dflt, log_level) == ceil >= log_level

\* _ULOG_EARLY_ENABLED(log_level), non-bootloader build:
\* (LOG_LOCAL_LEVEL >= (log_level) && ulog_default_level >= (log_level))
ULOG_EARLY_ENABLED(ceil, dflt, log_level) ==
    ceil >= log_level /\ dflt >= log_level

\* UEARLY_LOGx (kind "early": ULOG_EARLY_IMPL) and UDRAM_LOGx (kind "dram":
\* UDRAM_LOG_IMPL) at a call site compiled with LOG_LOCAL_LEVEL = ceil: when
\* enabled, printf is called directly (ret = 1), with ulog_timestamp() as an
\* argument in ULOG_EARLY_IMPL; the sink and the lock are not involved
EarlyLog(kind, level, tag, ceil) ==
    LET enabled == ULOG_EARLY_ENABLED(ceil, ulog_default_level, level)
    IN  /\ last' = Call(kind, tag, level, ceil, NoSink,
                        IF enabled THEN 1 ELSE 0, NoSink, 0, NoSink,
                        IF enabled /\ kind = "early" THEN 1 ELSE 0)
        /\ prev_swap' = NoSwap
        /\ UNCHANGED <<s_log_tags, ulog_default_level, s_log_print_func,
                       last_set, restored>>
        /\ UNCHANGED nonregvars

(***************************************************************************)
(* Platform shim: lock, lock with timeout, unlock                          *)
(***************************************************************************)
NoDispatch ==
    [level |-> ULOG_NONE, variant |-> "none", passed |-> FALSE,
     got |-> FALSE, sink_calls |-> 0, ts_reads |-> 0,
     constructed |-> FALSE, active |-> FALSE]

\* the shim of platform p before any call; the scheduler state exists on
\* FreeRTOS only
InitShim(p) ==
    /\ platform = p
    /\ sched = IF p = "rtos" THEN "NOT_STARTED" ELSE "RUNNING"
    /\ s_log_mutex = NULL
    /\ owner = [h \in Ctx |-> NULL]
    /\ mutex1 = NULL
    /\ s_lock = 0
    /\ pc = [c \in Ctx |-> "idle"]
    /\ cur = [c \in Ctx |-> NoDispatch]
    /\ bad_give = FALSE

\* where a dispatch that passed both checks continues: ulog_impl_lock /
\* ulog_impl_lock_timeout start with the creation check on FreeRTOS only
LockEntry(p) == IF p = "rtos" THEN "lock_check" ELSE "lock_take"

\* ulog_write, step 6: the blocking variant always unlocks, the bounded one
\* only when ulog_impl_lock_timeout returned true
UnlockAfter(variant, got) == variant = "blocking" \/ got

\* (mutant) a line whose lock timed out is dropped
AfterLock_DropOnTimeout(got) == IF got THEN "sink" ELSE "idle"

\* ulog_write, step 3 to 5: with or without the lock the line goes to the sink
AfterLock(got) == "sink"

\* the outcomes of releasing mutex state `own` by context c: the holder
\* frees it; a give of a free mutex fails; a give of a mutex another context
\* holds is outside the primitive's contract and may or may not free it
GiveOutcomes(own, c) ==
    IF own = c THEN {NULL}
    ELSE IF own = NULL THEN {NULL}
    ELSE {own, NULL}

\* the macro ULOGx, then ulog_write up to the lock: ceiling check, timestamp
\* argument, threshold check
Begin(c, level, variant) ==
    LET ceil_ok == ULOG_LEVEL_LOCAL(CONFIG_LOG_MAXIMUM_LEVEL, level)
        passed == ceil_ok /\ ShouldOutput(s_log_tags, ulog_default_level,
                                         ULOG_LEVEL(level), "a")
    IN  /\ pc[c] = "idle"
        /\ cur' = [cur EXCEPT ![c] =
                    [level |-> level, variant |-> variant, passed |-> passed,
                     got |-> FALSE, sink_calls |-> 0,
                     ts_reads |-> IF ceil_ok THEN 1 ELSE 0,
                     constructed |-> platform # "rtos", active |-> FALSE]]
        /\ pc' = [pc EXCEPT ![c] = IF passed THEN LockEntry(platform) ELSE "idle"]
        /\ UNCHANGED <<platform, sched, s_log_mutex, owner, mutex1, s_lock,
                       bad_give>>
        /\ UNCHANGED nonlockvars

\* ulog_freertos.c: if (unlikely(!s_log_mutex)); history: whether the call
\* found the mutex constructed
LockCheck(c) ==
    /\ pc[c] = "lock_check"
    /\ pc' = [pc EXCEPT ![c] = IF s_log_mutex = NULL THEN "lock_create"
                               ELSE "lock_take"]
    /\ cur' = [cur EXCEPT ![c].constructed = (s_log_mutex # NULL)]
    /\ UNCHANGED <<platform, sched, s_log_mutex, owner, mutex1, s_lock,
                   bad_give>>
    /\ UNCHANGED nonlockvars

\* ulog_freertos.c: s_log_mutex = xSemaphoreCreateMutex();
LockCreate(c) ==
    /\ pc[c] = "lock_create"
    /\ s_log_mutex' = c
    /\ pc' = [pc EXCEPT ![c] = "lock_take"]
    /\ UNCHANGED <<platform, sched, owner, mutex1, s_lock, cur, bad_give>>
    /\ UNCHANGED nonlockvars

\* the lock call returns `got` to ulog_write; history: whether it returned
\* in Scheduler-Active state
Returned(c, got) ==
    /\ cur' = [cur EXCEPT ![c].got = got, ![c].active = (sched = "RUNNING")]
    /\ pc' = [pc EXCEPT ![c] = AfterLock(got)]

\* ulog_freertos.c, ulog_impl_lock and ulog_impl_lock_timeout after the
\* creation check: return before the scheduler runs, else xSemaphoreTake with
\* portMAX_DELAY or MAX_MUTEX_WAIT_TICKS
LockTakeRtos(c) ==
    /\ pc[c] = "lock_take"
    /\ platform = "rtos"
    /\ \/ /\ sched = "NOT_STARTED"
          /\ Returned(c, TRUE)
          /\ UNCHANGED owner
       \/ /\ sched = "RUNNING"
          /\ owner[s_log_mutex] = NULL
          /\ owner' = [owner EXCEPT ![s_log_mutex] = c]
          /\ Returned(c, TRUE)
       \/ /\ sched = "RUNNING"
          /\ owner[s_log_mutex] # NULL
          /\ cur[c].variant = "bounded"
          /\ Returned(c, FALSE)
          /\ UNCHANGED owner
    /\ UNCHANGED <<platform, sched, s_log_mutex, mutex1, s_lock, bad_give>>
    /\ UNCHANGED nonlockvars

\* ulog_linux.c, ulog_impl_lock and ulog_impl_lock_timeout:
\* pthread_mutex_lock(&mutex1), return true
LockTakePosix(c) ==
    /\ pc[c] = "lock_take"
    /\ platform = "posix"
    /\ mutex1 = NULL
    /\ mutex1' = c
    /\ Returned(c, TRUE)
    /\ UNCHANGED <<platform, sched, s_log_mutex, owner, s_lock, bad_give>>
    /\ UNCHANGED nonlockvars

\* ulog_noos.c, ulog_impl_lock and ulog_impl_lock_timeout: s_lock = 1
LockTakeNoos(c) ==
    /\ pc[c] = "lock_take"
    /\ platform = "noos"
    /\ s_lock' = 1
    /\ Returned(c, TRUE)
    /\ UNCHANGED <<platform, sched, s_log_mutex, owner, mutex1, bad_give>>
    /\ UNCHANGED nonlockvars

LockTake(c) == LockTakeRtos(c) \/ LockTakePosix(c) \/ LockTakeNoos(c)

\* ulog_write, step 5: the line is passed to the sink
Sink(c) ==
    /\ pc[c] = "sink"
    /\ cur' = [cur EXCEPT ![c].sink_calls = @ + 1]
    /\ pc' = [pc EXCEPT ![c] = IF UnlockAfter(cur[c].variant, cur[c].got)
                               THEN "unlock" ELSE "idle"]
    /\ UNCHANGED <<platform, sched, s_log_mutex, owner, mutex1, s_lock,
                   bad_give>>
    /\ UNCHANGED nonlockvars

\* ulog_impl_unlock of the three shims
Unlock(c) ==
    /\ pc[c] = "unlock"
    /\ pc' = [pc EXCEPT ![c] = "idle"]
    /\ IF platform = "rtos"
       THEN IF sched = "NOT_STARTED"
            THEN UNCHANGED <<owner, bad_give>>
            ELSE /\ \E o \in GiveOutcomes(owner[s_log_mutex], c) :
                        owner' = [owner EXCEPT ![s_log_mutex] = o]
                 /\ bad_give' = (bad_give \/ owner[s_log_mutex] # c)
       ELSE UNCHANGED <<owner, bad_give>>
    /\ mutex1' = IF platform = "posix" THEN NULL ELSE mutex1
    /\ s_lock' = IF platform = "noos" THEN 0 ELSE s_lock
    /\ UNCHANGED <<platform, sched, s_log_mutex, cur>>
    /\ UNCHANGED nonlockvars

\* vTaskStartScheduler: Pre-Scheduler -> Scheduler-Active, at any moment
StartScheduler ==
    /\ platform = "rtos"
    /\ sched = "NOT_STARTED"
    /\ sched' = "RUNNING"
    /\ UNCHANGED <<platform, s_log_mutex, owner, mutex1, s_lock, pc, cur,
                   bad_give>>
    /\ UNCHANGED nonlockvars

(***************************************************************************)
(* Buffer dump formatters: the chunking loop the three of them share       *)
(***************************************************************************)
NoChunk == [off |-> 0, len |-> 0]

\* no ULOG_LEVEL call made yet by the formatter
NoDisp == [level |-> ULOG_NONE, letter |-> "-", thr |-> ULOG_NONE,
           sunk |-> FALSE]

InitBuf ==
    /\ buf_pc = "idle"
    /\ buf_fmt = "none"
    /\ buf_level = ULOG_NONE
    /\ buf_n = 0
    /\ buff_len = 0
    /\ buf_off = 0
    /\ buf_lines = 0
    /\ buf_sunk = 0
    /\ buf_last = NoChunk
    /\ buf_disp = NoDisp

\* static inline bool uptr_byte_accessible(const void* ptr)
uptr_byte_accessible == TRUE

\* (mutant) the last chunk is not clamped to the bytes left
BytesCurLine_NoClamp(len) == BYTES_PER_LINE

\* if (buff_len > BYTES_PER_LINE) bytes_cur_line = BYTES_PER_LINE;
\* else bytes_cur_line = buff_len;
BytesCurLine(len) == IF len > BYTES_PER_LINE THEN BYTES_PER_LINE ELSE len

\* ulog_buffer_{hex,char,hexdump}_internal(tag, buffer, n, level): entry,
\* with  if (buff_len == 0) return;
BufCall(f, n, level) ==
    /\ buf_pc = "idle"
    /\ buf_fmt' = f
    /\ buf_level' = level
    /\ buf_n' = n
    /\ buff_len' = n
    /\ buf_off' = 0
    /\ buf_lines' = 0
    /\ buf_sunk' = 0
    /\ buf_last' = NoChunk
    /\ buf_disp' = NoDisp
    /\ buf_pc' = IF n = 0 THEN "done" ELSE "loop"
    /\ UNCHANGED nonbufvars

\* one pass of the do ... while (buff_len) loop: the chunk is rendered and
\* dispatched with ULOG_LEVEL(log_level, tag, "%s", ...), then
\* buffer += bytes_cur_line; buff_len -= bytes_cur_line;
BufLine ==
    LET bytes_cur_line == BytesCurLine(buff_len)
        left == (buff_len - bytes_cur_line) % (UINT16_MAX + 1)
        sunk == ShouldOutput(s_log_tags, ulog_default_level,
                             ULOG_LEVEL(buf_level), "a")
    IN  /\ buf_pc = "loop"
        /\ buf_last' = [off |-> buf_off, len |-> bytes_cur_line]
        /\ buf_lines' = buf_lines + 1
        /\ buf_sunk' = IF sunk THEN buf_sunk + 1 ELSE buf_sunk
        /\ buf_disp' = [level |-> ULOG_LEVEL(buf_level),
                        letter |-> ULOG_LEVEL_Letter(buf_level),
                        thr |-> ulog_level_get(s_log_tags, ulog_default_level,
                                               "a"),
                        sunk |-> sunk]
        /\ buf_off' = buf_off + bytes_cur_line
        /\ buff_len' = left
        /\ buf_pc' = IF left # 0 THEN "loop" ELSE "done"
        /\ UNCHANGED <<buf_fmt, buf_level, buf_n>>
        /\ UNCHANGED nonbufvars

\* the formatter has returned; the next call can be made
BufReturn ==
    /\ buf_pc = "done"
    /\ buf_pc' = "idle"
    /\ UNCHANGED <<buf_fmt, buf_level, buf_n, buff_len, buf_off, buf_lines,
                   buf_sunk, buf_last, buf_disp>>
    /\ UNCHANGED nonbufvars

\* ULOG_BUFFER_HEX_LEVEL / ULOG_BUFFER_CHAR_LEVEL / ULOG_BUFFER_HEXDUMP:
\* if (LOG_LOCAL_LEVEL >= (level)) ulog_buffer_*_internal(tag, buffer, n, level)
BufMacro(f, n, level) ==
    /\ ULOG_LEVEL_LOCAL(CONFIG_LOG_MAXIMUM_LEVEL, level)
    /\ BufCall(f, n, level)

(***************************************************************************)
(* printf conversions                                                      *)
(***************************************************************************)
\* the character code of digit d
Digit(d) == 48 + d

\* the character code of hexadecimal digit d, in lowercase
HexChar(d) == IF d < 10 THEN Digit(d) ELSE 87 + d

\* the hexadecimal digits of n < 2^16, without leading zeros
RECURSIVE HexMin(_)
HexMin(n) ==
    IF n < 16 THEN <<HexChar(n)>>
    ELSE HexMin(n \div 16) \o <<HexChar(n % 16)>>

\* the four hexadecimal digits of n < 2^16
Hex4(n) ==
    <<HexChar(n \div 4096), HexChar((n \div 256) % 16),
      HexChar((n \div 16) % 16), HexChar(n % 16)>>

\* "%02x" of an unsigned int: its digits, padded with 0 to two
Format02x(v) ==
    LET digits == IF v[1] = 0 THEN HexMin(v[2]) ELSE HexMin(v[1]) \o Hex4(v[2])
    IN  IF Len(digits) < 2 THEN <<Digit(0)>> \o digits ELSE digits

\* a char passed to a variadic function: promoted to int, then read by %x
\* as unsigned int; a signed char of 0x80 .. 0xff is negative and becomes
\* 0xffffff80 .. 0xffffffff
Promote(b, signed) ==
    IF signed /\ b >= 128 THEN U32(65535, 65280 + b) ELSE U32(0, b)

\* isprint((int)ptr_line[i]) in the "C" locale; the argument is negative
\* for a signed char of 0x80 .. 0xff, which isprint is not defined for: what
\* it answers then is up to the C library (neg_print)
IsPrint(b, signed, neg_print) ==
    IF signed /\ b >= 128 THEN neg_print ELSE b >= 32 /\ b <= 126

\* sprintf(buf + off, ...) producing `text`: the text and its NUL are
\* stored from offset off on, the bytes after them stay
WriteAt(buf, off, text) ==
    SubSeq(buf, 1, off) \o text \o <<0>>
        \o SubSeq(buf, off + Len(text) + 2, Len(buf))

(***************************************************************************)
(* ulog_system_timestamp                                                   *)
(***************************************************************************)
\* struct tm timeinfo / struct timeval tv before gettimeofday has filled them
NoTime == [hour |-> 0, min |-> 0, sec |-> 0, msec |-> 0]

\* the pointer returned has not been read through yet
NotRead == [done |-> FALSE, text |-> <<>>]

InitClk ==
    /\ buffer = [i \in 1 .. BufferSize |-> NUL]
    /\ clock_calls = 0
    /\ clock_v = U32(0, 0)
    /\ clock_ret = <<>>
    /\ clock_pre = FALSE
    /\ bufferLock = NULL
    /\ st_pc = [c \in Ctx |-> "idle"]
    /\ st_t = [c \in Ctx |-> NoTime]
    /\ st_holder = NULL
    /\ st_read = [c \in Ctx |-> NotRead]

\* the string a char * points to: the characters before the first NUL
RECURSIVE CString(_, _)
CString(buf, i) ==
    IF i > Len(buf) \/ buf[i] = NUL THEN <<>>
    ELSE <<buf[i]>> \o CString(buf, i + 1)

\* (mutant) the digit is stored without moving the earlier ones
ShiftIn_NoShift(buf, ch) == [buf EXCEPT ![1] = ch]

\* for (j = sizeof(buffer) - 1; j > 0; j--) buffer[j] = buffer[j - 1];
\* buffer[0] = ch;
ShiftIn(buf, ch) == <<ch>> \o SubSeq(buf, 1, BufferSize - 1)

\* the loop  for (uint8_t i = 0; i < sizeof(buffer); i++)  of the
\* Pre-Scheduler branch, from index i on (buffer[i] is buf[i + 1])
RECURSIVE EarlyDigits(_, _, _)
EarlyDigits(buf, timestamp, i) ==
    IF i >= BufferSize THEN buf
    ELSE IF timestamp # U32(0, 0) \/ i = 0
    THEN EarlyDigits(ShiftIn(buf, Digit(Mod10(timestamp))),
                     Div10(timestamp), i + 1)
    ELSE [buf EXCEPT ![i + 1] = NUL]

\* %02d and %03ld of a value below 100 and below 1000
TwoDigits(n) == <<Digit(n \div 10), Digit(n % 10)>>
ThreeDigits(n) == <<Digit(n \div 100)>> \o TwoDigits(n % 100)

\* snprintf(buffer, sizeof(buffer), "%02d:%02d:%02d.%03ld", ...): the text,
\* its NUL, and the bytes after it left as they were
FormatTime(buf, t) ==
    LET text == TwoDigits(t.hour) \o <<58>> \o TwoDigits(t.min) \o <<58>>
                \o TwoDigits(t.sec) \o <<46>> \o ThreeDigits(t.msec)
                \o <<NUL>>
    IN  text \o SubSeq(buf, Len(text) + 1, BufferSize)

\* ulog_system_timestamp() by the only context of the Pre-Scheduler state, or
\* by one context at a time afterwards; v is what ulog_early_timestamp()
\* returns, t the time of day
SystemTimestamp(v, t) ==
    /\ platform = "rtos"
    /\ clock_calls < MaxClockCalls
    /\ clock_calls' = clock_calls + 1
    /\ buffer' = IF sched = "NOT_STARTED" THEN EarlyDigits(buffer, v, 0)
                  ELSE FormatTime(buffer, t)
    /\ clock_v' = IF sched = "NOT_STARTED" THEN v ELSE clock_v
    /\ clock_ret' = CString(buffer', 1)
    /\ clock_pre' = (sched = "NOT_STARTED")
    /\ UNCHANGED <<bufferLock, st_pc, st_t, st_holder, st_read>>
    /\ UNCHANGED lockvars
    /\ UNCHANGED nonclkvars

(***************************************************************************)
(* ulog_system_timestamp in Scheduler-Active state, one statement per      *)
(* step, as the argument of a ULOG_LEVEL call; callers interleaved         *)
(***************************************************************************)
\* "%02d:%02d:%02d.%03ld" of the time of day t
TimeText(t) ==
    TwoDigits(t.hour) \o <<58>> \o TwoDigits(t.min) \o <<58>>
        \o TwoDigits(t.sec) \o <<46>> \o ThreeDigits(t.msec)

\* snprintf stores its output character by character: the characters it has
\* stored when another context can run in between
HeadLen == 6

\* the characters text stored from buffer[from - 1] on
StoreAt(buf, from, text) ==
    SubSeq(buf, 1, from - 1) \o text \o SubSeq(buf, from + Len(text), BufferSize)

\* the history and the frame of a step of the wall-clock call of context c
StStep(c, from, to) ==
    /\ platform = "rtos"
    /\ sched = "RUNNING"
    /\ st_pc[c] = from
    /\ st_pc' = [st_pc EXCEPT ![c] = to]
    /\ UNCHANGED <<clock_calls, clock_v, clock_ret, clock_pre>>
    /\ UNCHANGED lockvars
    /\ UNCHANGED nonclkvars

\* ULOG_LEVEL evaluates ulog_system_timestamp() as an argument of ulog_write:
\* gettimeofday(&tv, NULL); localtime_r(&tv.tv_sec, &timeinfo);
StCall(c, t) ==
    /\ StStep(c, "idle", "acquire")
    /\ st_t' = [st_t EXCEPT ![c] = t]
    /\ st_read' = [st_read EXCEPT ![c] = NotRead]
    /\ UNCHANGED <<buffer, bufferLock, st_holder>>

\* _lock_acquire(&bufferLock);
StAcquire(c) ==
    /\ StStep(c, "acquire", "head")
    /\ bufferLock = NULL
    /\ bufferLock' = c
    /\ UNCHANGED <<buffer, st_t, st_holder, st_read>>

\* snprintf(buffer, sizeof(buffer), "%02d:%02d:%02d.%03ld", ...): its first
\* characters
StPrintHead(c) ==
    /\ StStep(c, "head", "tail")
    /\ buffer' = StoreAt(buffer, 1, SubSeq(TimeText(st_t[c]), 1, HeadLen))
    /\ UNCHANGED <<bufferLock, st_t, st_holder, st_read>>

\* snprintf: the other characters and the terminating NUL
StPrintTail(c) ==
    LET text == TimeText(st_t[c])
    IN  /\ StStep(c, "tail", "release")
        /\ buffer' = StoreAt(buffer, HeadLen + 1,
                             SubSeq(text, HeadLen + 1, Len(text)) \o <<NUL>>)
        /\ UNCHANGED <<bufferLock, st_t, st_holder, st_read>>

\* _lock_release(&bufferLock); return buffer;
StRelease(c) ==
    /\ StStep(c, "release", "returned")
    /\ bufferLock' = NULL
    /\ UNCHANGED <<buffer, st_t, st_holder, st_read>>

\* ulog_write is entered with the pointer and takes the dispatch lock
\* (blocking variant)
StLock(c) ==
    /\ StStep(c, "returned", "read")
    /\ st_holder = NULL
    /\ st_holder' = c
    /\ UNCHANGED <<buffer, bufferLock, st_t, st_read>>

\* the sink formats the line: %s reads the string the pointer refers to;
\* then the dispatch lock is released
StRead(c) ==
    /\ StStep(c, "read", "idle")
    /\ st_read' = [st_read EXCEPT ![c] =
                        [done |-> TRUE, text |-> CString(buffer, 1)]]
    /\ st_holder' = NULL
    /\ UNCHANGED <<buffer, bufferLock, st_t>>

(***************************************************************************)
(* ulog_timestamp, one statement per step, callers interleaved             *)
(***************************************************************************)
InitTs ==
    /\ base = U32(0, 0)
    /\ early_now = U32(0, 0)
    /\ tick_count = U32(0, 0)
    /\ ts_pc = [c \in Ctx |-> "idle"]
    /\ ts_core = [c \in Ctx |-> 0]
    /\ ts_e = [c \in Ctx |-> U32(0, 0)]
    /\ ts_ret = [c \in Ctx |-> U32(0, 0)]
    /\ ts_active = [c \in Ctx |-> FALSE]
    /\ ts_floor = [c \in Ctx |-> U32(0, 0)]
    /\ ts_max = U32(0, 0)
    /\ base_relatched = FALSE
    /\ base_writers = {}

\* base + tick_count * (1000 / configTICK_RATE_HZ)
TimestampValue(b, ticks) == Add32(b, MulK32(ticks, MsPerTick))

\* the call, on core `core`: before the scheduler runs it returns
\* ulog_early_timestamp(); afterwards it goes on to the test of base
TsCall(c, core) ==
    /\ platform = "rtos"
    /\ ts_pc[c] = "idle"
    /\ ts_core' = [ts_core EXCEPT ![c] = core]
    /\ ts_floor' = [ts_floor EXCEPT ![c] = ts_max]
    /\ ts_active' = [ts_active EXCEPT ![c] = FALSE]
    /\ IF sched = "NOT_STARTED"
       THEN /\ ts_ret' = [ts_ret EXCEPT ![c] = early_now]
            /\ UNCHANGED ts_pc
       ELSE /\ ts_pc' = [ts_pc EXCEPT ![c] = "test"]
            /\ UNCHANGED ts_ret
    /\ UNCHANGED <<base, early_now, tick_count, ts_e, ts_max,
                   base_relatched, base_writers>>
    /\ UNCHANGED lockvars
    /\ UNCHANGED nontsvars

\* if (base == 0 && xPortGetCoreID() == 0)
TsTest(c) ==
    /\ ts_pc[c] = "test"
    /\ ts_pc' = [ts_pc EXCEPT ![c] =
                    IF base = U32(0, 0) /\ ts_core[c] = 0 THEN "early"
                    ELSE "sum"]
    /\ UNCHANGED <<base, early_now, tick_count, ts_core, ts_e, ts_ret,
                   ts_active, ts_floor, ts_max, base_relatched, base_writers>>
    /\ UNCHANGED lockvars
    /\ UNCHANGED nontsvars

\* ... = ulog_early_timestamp()
TsEarly(c) ==
    /\ ts_pc[c] = "early"
    /\ ts_e' = [ts_e EXCEPT ![c] = early_now]
    /\ ts_pc' = [ts_pc EXCEPT ![c] = "store"]
    /\ UNCHANGED <<base, early_now, tick_count, ts_core, ts_ret, ts_active,
                   ts_floor, ts_max, base_relatched, base_writers>>
    /\ UNCHANGED lockvars
    /\ UNCHANGED nontsvars

\* base = ...
TsStore(c) ==
    /\ ts_pc[c] = "store"
    /\ base' = ts_e[c]
    /\ base_relatched' = (base_relatched \/ base # U32(0, 0))
    /\ base_writers' = base_writers \cup {ts_core[c]}
    /\ ts_pc' = [ts_pc EXCEPT ![c] = "sum"]
    /\ UNCHANGED <<early_now, tick_count, ts_core, ts_e, ts_ret, ts_active,
                   ts_floor, ts_max>>
    /\ UNCHANGED lockvars
    /\ UNCHANGED nontsvars

\* tick_count = xTaskGetTickCount() (or ...FromISR());
\* return base + tick_count * (1000 / configTICK_RATE_HZ);
TsSum(c) ==
    LET result == TimestampValue(base, tick_count)
    IN  /\ ts_pc[c] = "sum"
        /\ ts_ret' = [ts_ret EXCEPT ![c] = result]
        /\ ts_active' = [ts_active EXCEPT ![c] = TRUE]
        /\ ts_max' = IF Lt32(ts_max, result) THEN result ELSE ts_max
        /\ ts_pc' = [ts_pc EXCEPT ![c] = "idle"]
        /\ UNCHANGED <<base, early_now, tick_count, ts_core, ts_e, ts_floor,
                       base_relatched, base_writers>>
        /\ UNCHANGED lockvars
        /\ UNCHANGED nontsvars

\* the cycle counter advances
EarlyAdvance ==
    /\ \E e \in EarlyReadings : Lt32(early_now, e) /\ early_now' = e
    /\ UNCHANGED <<base, tick_count, ts_pc, ts_core, ts_e, ts_ret, ts_active,
                   ts_floor, ts_max, base_relatched, base_writers>>
    /\ UNCHANGED lockvars
    /\ UNCHANGED nontsvars

\* the tick interrupt: the tick count advances once the scheduler runs
TickAdvance ==
    /\ sched = "RUNNING"
    /\ \E t \in TickCounts : Lt32(tick_count, t) /\ tick_count' = t
    /\ UNCHANGED <<base, early_now, ts_pc, ts_core, ts_e, ts_ret, ts_active,
                   ts_floor, ts_max, base_relatched, base_writers>>
    /\ UNCHANGED lockvars
    /\ UNCHANGED nontsvars

(***************************************************************************)
(* The body of the do ... while loop of the three formatters, for one      *)
(* chunk, one sprintf per step                                             *)
(***************************************************************************)
InitRend ==
    /\ rend_pc = "idle"
    /\ rend_fmt = "none"
    /\ chunk = <<>>
    /\ char_signed = FALSE
    /\ isprint_neg = FALSE
    /\ rend_addr = <<>>
    /\ rend_i = 0
    /\ line_buf = <<>>
    /\ ptr_hd = 0
    /\ rend_msg = <<>>

\* formatter f starts on a chunk; hex_buffer, char_buffer and hd_buffer are
\* locals without initializer
RenderCall(f, bytes, signed, neg_print, addr) ==
    /\ rend_pc = "idle"
    /\ rend_fmt' = f
    /\ chunk' = bytes
    /\ char_signed' = signed
    /\ isprint_neg' = (signed /\ f = "hexdump" /\ neg_print)
    /\ rend_addr' = IF f = "hexdump" THEN addr ELSE <<>>
    /\ rend_i' = 0
    /\ line_buf' = <<>>
    /\ ptr_hd' = 0
    /\ rend_pc' = IF f = "hexdump" THEN "hd_addr" ELSE f
    /\ rend_msg' = <<>>
    /\ UNCHANGED nonrendvars

\* for (i ...) sprintf(hex_buffer + 3 * i, "%02x ", ptr_line[i]);
HexByte ==
    /\ rend_pc = "hex"
    /\ IF rend_i < Len(chunk)
       THEN /\ line_buf' = WriteAt(line_buf, 3 * rend_i,
                    Format02x(Promote(chunk[rend_i + 1], char_signed))
                        \o <<32>>)
            /\ rend_i' = rend_i + 1
            /\ UNCHANGED rend_pc
       ELSE /\ rend_pc' = "emit"
            /\ UNCHANGED <<line_buf, rend_i>>
    /\ UNCHANGED <<rend_fmt, chunk, char_signed, isprint_neg, rend_addr,
                   ptr_hd, rend_msg>>
    /\ UNCHANGED nonrendvars

\* for (i ...) sprintf(char_buffer + i, "%c", ptr_line[i]);
CharByte ==
    /\ rend_pc = "char"
    /\ IF rend_i < Len(chunk)
       THEN /\ line_buf' = WriteAt(line_buf, rend_i, <<chunk[rend_i + 1]>>)
            /\ rend_i' = rend_i + 1
            /\ UNCHANGED rend_pc
       ELSE /\ rend_pc' = "emit"
            /\ UNCHANGED <<line_buf, rend_i>>
    /\ UNCHANGED <<rend_fmt, chunk, char_signed, isprint_neg, rend_addr,
                   ptr_hd, rend_msg>>
    /\ UNCHANGED nonrendvars

\* the step of the hexdump formatter that stores `text` at ptr_hd and
\* advances ptr_hd by its length
HdPrint(text) ==
    /\ line_buf' = WriteAt(line_buf, ptr_hd, text)
    /\ ptr_hd' = ptr_hd + Len(text)

\* ptr_hd += sprintf(ptr_hd, "%p ", buffer);
HdAddr ==
    /\ rend_pc = "hd_addr"
    /\ HdPrint(rend_addr \o <<32>>)
    /\ rend_pc' = "hd_slots"
    /\ UNCHANGED <<rend_fmt, chunk, char_signed, isprint_neg, rend_addr,
                   rend_i, rend_msg>>
    /\ UNCHANGED nonrendvars

\* for (i = 0; i < BYTES_PER_LINE; i++): " " before slots 0 and 8, then
\* " %02x" of the byte or "   "; after the loop, "  |"
HdSlot ==
    /\ rend_pc = "hd_slots"
    /\ IF rend_i < BYTES_PER_LINE
       THEN /\ HdPrint((IF rend_i % 8 = 0 THEN <<32>> ELSE <<>>)
                    \o (IF rend_i < Len(chunk)
                        THEN <<32>> \o Format02x(Promote(chunk[rend_i + 1],
                                                         char_signed))
                        ELSE <<32, 32, 32>>))
            /\ rend_i' = rend_i + 1
            /\ UNCHANGED rend_pc
       ELSE /\ HdPrint(<<32, 32, 124>>)
            /\ rend_i' = 0
            /\ rend_pc' = "hd_margin"
    /\ UNCHANGED <<rend_fmt, chunk, char_signed, isprint_neg, rend_addr,
                   rend_msg>>
    /\ UNCHANGED nonrendvars

\* for (i = 0; i < bytes_cur_line; i++): the byte when isprint, else ".";
\* after the loop, "|"
HdMargin ==
    /\ rend_pc = "hd_margin"
    /\ IF rend_i < Len(chunk)
       THEN /\ HdPrint(IF IsPrint(chunk[rend_i + 1], char_signed,
                                   isprint_neg)
                        THEN <<chunk[rend_i + 1]>> ELSE <<46>>)
            /\ rend_i' = rend_i + 1
            /\ UNCHANGED rend_pc
       ELSE /\ HdPrint(<<124>>)
            /\ rend_pc' = "emit"
            /\ UNCHANGED rend_i
    /\ UNCHANGED <<rend_fmt, chunk, char_signed, isprint_neg, rend_addr,
                   rend_msg>>
    /\ UNCHANGED nonrendvars

\* ULOG_LEVEL(log_level, tag, "%s", hex_buffer / char_buffer / hd_buffer)
RenderEmit ==
    /\ rend_pc = "emit"
    /\ rend_msg' = CString(line_buf, 1)
    /\ rend_pc' = "idle"
    /\ UNCHANGED <<rend_fmt, chunk, char_signed, isprint_neg, rend_addr,
                   rend_i, line_buf, ptr_hd>>
    /\ UNCHANGED nonrendvars

(***************************************************************************)
(* Spec: the level registry and the dispatch gate, called from one context *)
(***************************************************************************)
NextReg ==
    \/ \E tag \in AllTags, level \in Severity : LevelSet(tag, level)
    \/ \E tag \in AllTags : LevelGet(tag)
    \/ \E level \in Severity, tag \in Tags, ceil \in Severity :
            LogCall(level, tag, ceil)

\* the build of CMakeLists.txt links the POSIX shim
Init == InitReg /\ InitShim("posix") /\ InitBuf /\ InitClk /\ InitTs /\ InitRend

Next == NextReg

Spec == Init /\ [][Next]_vars

(***************************************************************************)
(* SpecSink: the sink registry and the dispatch gate, called from one      *)
(* context; the wildcard default is the only threshold that changes        *)
(***************************************************************************)
NextSink ==
    \/ \E func \in Sinks : SetVprintf(func)
    \/ \E level \in Severity, tag \in Tags, ceil \in Severity :
            LogCall(level, tag, ceil)
    \/ \E level \in Severity : LevelSet(WILDCARD, level)

SpecSink == Init /\ [][NextSink]_vars

(***************************************************************************)
(* SpecEarly: the early and DRAM log macros between calls of               *)
(* ulog_level_set, from one context                                        *)
(***************************************************************************)
NextEarly ==
    \/ \E tag \in AllTags, level \in Severity : LevelSet(tag, level)
    \/ \E kind \in {"early", "dram"}, level \in MacroLevels, tag \in Tags,
          ceil \in Severity : EarlyLog(kind, level, tag, ceil)

SpecEarly == Init /\ [][NextEarly]_vars

(***************************************************************************)
(* SpecLock: dispatches of NumCtx contexts interleaved, on each platform;  *)
(* the registry is in the state set("*", ULOG_INFO) leaves it in           *)
(***************************************************************************)
LockLevels == {ULOG_ERROR, ULOG_DEBUG}

Variants == {"blocking", "bounded"}

InitLock ==
    /\ s_log_tags = <<>>
    /\ ulog_default_level = ULOG_INFO
    /\ s_log_print_func = "vprintf"
    /\ last = NoCall
    /\ last_set = [t \in AllTags |-> IF t = WILDCARD THEN ULOG_INFO ELSE NeverSet]
    /\ prev_swap = NoSwap
    /\ restored = NoSink
    /\ \E p \in Platforms : InitShim(p)
    /\ InitBuf
    /\ InitClk
    /\ InitTs
    /\ InitRend

NextLock ==
    \/ \E c \in Ctx, level \in LockLevels, variant \in Variants :
            Begin(c, level, variant)
    \/ \E c \in Ctx : LockCheck(c)
    \/ \E c \in Ctx : LockCreate(c)
    \/ \E c \in Ctx : LockTake(c)
    \/ \E c \in Ctx : Sink(c)
    \/ \E c \in Ctx : Unlock(c)
    \/ StartScheduler

SpecLock == InitLock /\ [][NextLock]_vars

(***************************************************************************)
(* SpecBuf: the buffer dump formatters, one call after the other; the      *)
(* registry is in the state set("*", ULOG_INFO) leaves it in               *)
(***************************************************************************)
InitBufSpec ==
    /\ s_log_tags = <<>>
    /\ ulog_default_level = ULOG_INFO
    /\ s_log_print_func = "vprintf"
    /\ last = NoCall
    /\ last_set = [t \in AllTags |-> IF t = WILDCARD THEN ULOG_INFO ELSE NeverSet]
    /\ prev_swap = NoSwap
    /\ restored = NoSink
    /\ InitShim("posix")
    /\ InitBuf
    /\ InitClk
    /\ InitTs
    /\ InitRend

NextBuf ==
    \/ \E f \in Formatters, n \in BuffLens, level \in Severity :
            BufCall(f, n, level)
    \/ BufLine
    \/ BufReturn

SpecBuf == InitBufSpec /\ [][NextBuf]_vars

\* buffer dumps through the macros, at every level, while thresholds are set
NextDump ==
    \/ \E tag \in DumpTags, level \in Severity : LevelSet(tag, level)
    \/ \E f \in Formatters, n \in DumpLens, level \in Severity :
            BufMacro(f, n, level)
    \/ BufLine
    \/ BufReturn

SpecDump == Init /\ [][NextDump]_vars

(***************************************************************************)
(* SpecClock: ulog_system_timestamp called again and again on FreeRTOS,    *)
(* before and after the scheduler starts                                   *)
(***************************************************************************)
InitClock == InitReg /\ InitShim("rtos") /\ InitBuf /\ InitClk /\ InitTs /\ InitRend

NextClock ==
    \/ \E v \in EarlyValues, t \in TimesOfDay : SystemTimestamp(v, t)
    \/ StartScheduler

SpecClock == InitClock /\ [][NextClock]_vars

\* FreeRTOS, wall-clock timestamps: ULOG_LEVEL calls of several contexts
NextSysTs ==
    \/ StartScheduler
    \/ \E c \in Ctx, t \in TimesOfDay : StCall(c, t)
    \/ \E c \in Ctx : StAcquire(c)
    \/ \E c \in Ctx : StPrintHead(c)
    \/ \E c \in Ctx : StPrintTail(c)
    \/ \E c \in Ctx : StRelease(c)
    \/ \E c \in Ctx : StLock(c)
    \/ \E c \in Ctx : StRead(c)

SpecSysTs == InitClock /\ [][NextSysTs]_vars

(***************************************************************************)
(* SpecTs: ulog_timestamp called from NumCtx contexts on FreeRTOS while    *)
(* the cycle counter and the tick count advance and the scheduler starts   *)
(***************************************************************************)
NextTs ==
    \/ \E c \in Ctx, core \in Cores : TsCall(c, core)
    \/ \E c \in Ctx : TsTest(c)
    \/ \E c \in Ctx : TsEarly(c)
    \/ \E c \in Ctx : TsStore(c)
    \/ \E c \in Ctx : TsSum(c)
    \/ EarlyAdvance
    \/ TickAdvance
    \/ StartScheduler

SpecTs == InitClock /\ [][NextTs]_vars

(***************************************************************************)
(* SpecRender: the three formatters rendering one chunk after the other    *)
(***************************************************************************)
NextRender ==
    \/ \E f \in Formatters, bytes \in Chunks, signed \in BOOLEAN,
          neg_print \in BOOLEAN, addr \in PointerTexts :
            RenderCall(f, bytes, signed, neg_print, addr)
    \/ HexByte
    \/ CharByte
    \/ HdAddr
    \/ HdSlot
    \/ HdMargin
    \/ RenderEmit

SpecRender == Init /\ [][NextRender]_vars

(***************************************************************************)
(* Claims about the level registry, the sink registry and the gate         *)
(***************************************************************************)
\* get(tag) in the current state and in the state the last call started from
GetNow(t) == ulog_level_get(s_log_tags, ulog_default_level, t)
GetPre(t) == ulog_level_get(last.pre_tags, last.pre_default, t)

FiveSeverities == ULOG_ERROR .. ULOG_VERBOSE

\* C1: a log call at level L in Error..Verbose for tag t, compiled with any
\* ceiling and made in any reachable registry state, invokes the sink exactly
\* once if L <= ceiling and L <= get(t), and not at all otherwise.
C1_SinkIffEnabled ==
    (last.op = "log" /\ last.level \in FiveSeverities) =>
        last.sink_calls =
            IF last.level <= last.ceil /\ last.level <= GetPre(last.tag)
            THEN 1 ELSE 0

\* a Debug call is dropped by ceiling = Info although the wildcard allows
\* Verbose
C1_Witness ==
    /\ last.op = "log"
    /\ last.level = ULOG_DEBUG
    /\ last.ceil = ULOG_INFO
    /\ ~HasEntry(last.pre_tags, last.tag)
    /\ last.pre_default = ULOG_VERBOSE
    /\ last.sink_calls = 0

\* C2: get(t) of a tag without an explicit entry is the wildcard default: the
\* compile-time default (ULOG_VERBOSE in ulog_cfg.h) while set("*", .) was never
\* called, else the level of the most recent set("*", L); and a set("*", L)
\* changes get(t) of every such tag at once.
C2_NoEntryGetsWildcard ==
    /\ \A t \in Tags :
        ~HasEntry(s_log_tags, t) =>
            GetNow(t) = IF last_set[WILDCARD] = NeverSet
                        THEN ULOG_VERBOSE ELSE last_set[WILDCARD]
    /\ (last.op = "set" /\ last.tag = WILDCARD) =>
            \A t \in Tags : ~HasEntry(s_log_tags, t) => GetNow(t) = last.level

\* set("*", Warn) has just changed get of a tag without an entry
C2_Witness ==
    /\ last.op = "set"
    /\ last.tag = WILDCARD
    /\ last.level = ULOG_WARN
    /\ last.pre_default = ULOG_ERROR
    /\ \E t \in Tags : ~HasEntry(s_log_tags, t) /\ GetPre(t) = ULOG_ERROR
                        /\ GetNow(t) = ULOG_WARN

OneEntryPerTag ==
    \A i, j \in 1 .. Len(s_log_tags) :
        s_log_tags[i].tag = s_log_tags[j].tag => i = j

\* repeating an identical set(t, L) leaves the registry unchanged
IdenticalSetUnchanged ==
    (last.op = "set" /\ last.pre_last_set = last.level) =>
        /\ s_log_tags = last.pre_tags
        /\ ulog_default_level = last.pre_default

C5_WildcardResetsAll ==
    (last.op = "set" /\ last.tag = WILDCARD) =>
        \A t \in AllTags : GetNow(t) = last.level

\* C6: set_sink(new) returns the sink active before the call and makes new
\* the active sink; old = set_sink(new) followed by set_sink(old) returns new
\* and restores the sink active before the first call, and the log calls
\* that follow reach that sink.
C6_SinkRoundTrip ==
    /\ last.op = "set_vprintf" =>
        /\ last.old = last.pre_func
        /\ s_log_print_func = last.func
    /\ (last.op = "set_vprintf" /\ prev_swap # NoSwap
            /\ last.func = prev_swap.old) =>
        /\ last.old = prev_swap.func
        /\ s_log_print_func = prev_swap.pre_func
    /\ (last.op = "log" /\ restored # NoSink /\ last.sink_calls = 1) =>
        last.sink_used = restored

\* "vprintf" was replaced by "f1" and the value returned was installed again
C6_Witness ==
    /\ last.op = "set_vprintf"
    /\ prev_swap = [func |-> "f1", old |-> "vprintf", pre_func |-> "vprintf"]
    /\ last.func = "vprintf"
    /\ last.old = "f1"
    /\ s_log_print_func = "vprintf"

\* C15: an early or DRAM log macro at level L prints iff L <= LOG_LOCAL_LEVEL
\* and L <= the default level, which is the level of the most recent
\* ulog_level_set("*", .), the compile-time default before any such call; the
\* threshold set for the macro's tag plays no part.
C15_EarlyGate ==
    last.op \in {"early", "dram"} =>
        (last.ret = 1) =
            (/\ last.level <= last.ceil
             /\ last.level <= IF last_set[WILDCARD] = NeverSet
                               THEN ULOG_VERBOSE ELSE last_set[WILDCARD])

\* UEARLY_LOGD has printed for a tag whose own threshold is Error, after
\* set("*", Debug)
C15_Witness ==
    /\ last.op = "early"
    /\ last.level = ULOG_DEBUG
    /\ last.ceil = ULOG_VERBOSE
    /\ HasEntry(s_log_tags, last.tag)
    /\ GetNow(last.tag) = ULOG_ERROR
    /\ last_set[WILDCARD] = ULOG_DEBUG
    /\ last.ret = 1

\* C18: a log call whose level is within the ceiling and above the tag's
\* threshold has no side effects: no sink call, the registry and the active
\* sink unchanged, no lock held on return, and no timestamp read.
C18_DroppedNoEffects ==
    (/\ last.op = "log"
     /\ last.level \in FiveSeverities
     /\ last.level <= last.ceil
     /\ last.level > GetPre(last.tag)) =>
        /\ last.sink_calls = 0
        /\ s_log_tags = last.pre_tags
        /\ ulog_default_level = last.pre_default
        /\ s_log_print_func = last.pre_func
        /\ mutex1 = NULL
        /\ last.ts_reads = 0

(***************************************************************************)
(* Claims about the lock and the concurrent dispatch                       *)
(***************************************************************************)
\* context c is back from a bounded-variant dispatch whose
\* ulog_impl_lock_timeout returned false
TimedOut(c) ==
    /\ cur[c].variant = "bounded"
    /\ cur[c].passed
    /\ ~cur[c].got
    /\ pc[c] = "idle"

\* C7: a bounded-variant dispatch that passed the ceiling and threshold
\* checks and did not obtain the lock within the timeout still passes its line
\* to the sink, exactly once.
C7_TimeoutStillEmits ==
    \A c \in Ctx :
        /\ cur[c].sink_calls <= 1
        /\ TimedOut(c) => cur[c].sink_calls = 1

\* a context has returned from such a dispatch while the other one held the
\* mutex
C7_Witness ==
    \E c \in Ctx :
        /\ TimedOut(c)
        /\ cur[c].sink_calls = 1
        /\ platform = "rtos"
        /\ \E d \in Ctx \ {c} : owner[s_log_mutex] = d

\* C8: on every platform a context waiting in try_lock_with_timeout can
\* always take its next step, the holder of the lock never releasing it
\* included: the call returns, with false when the lock was not acquired.
C8_BoundedWaitReturns ==
    \A c \in Ctx :
        (pc[c] = "lock_take" /\ cur[c].variant = "bounded")
            => ENABLED LockTake(c)

HoldsLock(c) == (\E h \in Ctx : owner[h] = c) \/ mutex1 = c

\* C9: a mutex is released only by the context that holds it, and a context
\* back from a dispatch holds no lock.
C9_GiveOnlyByHolder ==
    /\ ~bad_give
    /\ \A c \in Ctx : pc[c] = "idle" => ~HoldsLock(c)

\* context c is between a lock call that returned with the lock, made in
\* Scheduler-Active state with the mutex constructed, and its unlock (the
\* no-OS shim has neither a scheduler nor a mutex)
InCritical(c) ==
    /\ platform # "noos"
    /\ pc[c] \in {"sink", "unlock"}
    /\ cur[c].got
    /\ cur[c].active
    /\ cur[c].constructed

\* C16: in Scheduler-Active state with the mutex constructed, at most one
\* context at a time is between a lock() that returned (or a
\* try_lock_with_timeout() that returned true) and its unlock(); a context
\* whose try_lock_with_timeout() returned false does not hold the lock.
C16_MutualExclusion ==
    /\ \A c, d \in Ctx : (InCritical(c) /\ InCritical(d)) => c = d
    /\ \A c \in Ctx :
        (pc[c] = "sink" /\ ~cur[c].got) => ~HoldsLock(c)

\* C19: in a dispatch that emits a line, the timestamp is read after the
\* lock call has returned and before the sink is invoked, so no timestamp has
\* been read while the dispatch is still on its way to the lock.
C19_LockThenTimestamp ==
    \A c \in Ctx :
        /\ pc[c] \in {"lock_check", "lock_create", "lock_take"}
                => cur[c].ts_reads = 0
        /\ (pc[c] = "unlock" \/ (pc[c] = "idle" /\ cur[c].sink_calls = 1))
                => cur[c].ts_reads = 1

\* C23: the shared mutex is constructed at most once: once the handle
\* s_log_mutex is non-NULL, no step of any context changes it.
C23_ConstructedOnce ==
    [][s_log_mutex # NULL => s_log_mutex' = s_log_mutex]_vars

(***************************************************************************)
(* Claims about the buffer dump formatters                                 *)
(***************************************************************************)
Min(a, b) == IF a < b THEN a ELSE b

\* C10: for a buffer of n bytes each formatter returns after exactly
\* ceil(n/16) dispatch calls, made in increasing offset order, call i covering
\* the bytes [16(i-1), min(16i, n)): 16 bytes per chunk but for the last, no
\* call for n = 0; while it loops, the bytes left decrease with every call.
C10_Chunking ==
    /\ buf_lines > 0 =>
        /\ buf_last.off = 16 * (buf_lines - 1)
        /\ buf_last.off < buf_n
        /\ buf_last.len = Min(16 * buf_lines, buf_n) - buf_last.off
    /\ buf_pc = "loop" =>
        /\ buff_len > 0
        /\ buff_len = buf_n - 16 * buf_lines
    /\ buf_pc = "done" =>
        /\ buff_len = 0
        /\ buf_lines = (buf_n + 15) \div 16

\* a formatter has returned from a 40-byte buffer after chunks of 16, 16, 8
C10_Witness ==
    /\ buf_pc = "done"
    /\ buf_n = 40
    /\ buf_lines = 3
    /\ buf_last = [off |-> 32, len |-> 8]
    /\ buf_fmt = "hexdump"

\* a formatter has just dispatched the line of the current chunk
Rendered(f) == rend_fmt = f /\ rend_pc = "idle"

\* the two lowercase hexadecimal digits of byte b
Hex2(b) == <<HexChar(b \div 16), HexChar(b % 16)>>

\* the concatenation of part(1), ..., part(n)
RECURSIVE Concat(_, _)
Concat(parts, n) ==
    IF n = 0 THEN <<>> ELSE Concat(parts, n - 1) \o parts[n]

\* C11: the hex renderer turns a chunk of n bytes into exactly 3n characters:
\* for each byte, in order, two lowercase hex digits and a space.
C11_HexLine ==
    Rendered("hex") =>
        /\ Len(rend_msg) = 3 * Len(chunk)
        /\ rend_msg = Concat([i \in 1 .. Len(chunk) |->
                                Hex2(chunk[i]) \o <<32>>], Len(chunk))

\* C12: the char renderer turns a chunk of n bytes into exactly n characters,
\* the chunk's bytes in order, whatever their values.
C12_CharLine ==
    Rendered("char") =>
        /\ Len(rend_msg) = Len(chunk)
        /\ rend_msg = chunk

\* slot i of a hexdump line, and the character of byte b in its margin
HexdumpSlot(i) ==
    IF i <= Len(chunk) THEN <<32>> \o Hex2(chunk[i]) ELSE <<32, 32, 32>>
MarginChar(b) == IF b >= 32 /\ b <= 126 THEN b ELSE 46

\* C13: a hexdump line is the address, 16 slots in two groups of 8 (a space
\* and two hex digits for a byte of the chunk, three spaces past its end),
\* then the margin: '|', one character per byte (the byte if printable,
\* else '.'), '|'.
C13_HexdumpLine ==
    Rendered("hexdump") =>
        rend_msg =
            rend_addr \o <<32>>
            \o <<32>> \o Concat([i \in 1 .. 8 |-> HexdumpSlot(i)], 8)
            \o <<32>> \o Concat([i \in 1 .. 8 |-> HexdumpSlot(i + 8)], 8)
            \o <<32, 32, 124>>
            \o [i \in 1 .. Len(chunk) |-> MarginChar(chunk[i])]
            \o <<124>>

\* C21: no formatter writes past its line buffer: whatever the chunk, the
\* signedness of char and the width of the address, the bytes written, the
\* terminating NUL included, are at most 49 (hex_buffer), 17 (char_buffer)
\* and 82 (hd_buffer), and the staged copy of a chunk fits temp_buffer.
C21_NoLineOverflow ==
    /\ rend_fmt \in Formatters => Len(line_buf) <= LineBufferSize(rend_fmt)
    /\ HexBufferSize = 49 /\ CharBufferSize = 17 /\ HdBufferSize = 82
    /\ \A n \in 1 .. BYTES_PER_LINE : StagedCopyLen(n) <= TempBufferSize

\* C24: ULOG_LEVEL dispatches at the level it is given only for Error, Warn,
\* Debug and Verbose; every other level, None included, is dispatched at
\* Info with the letter I, so a line of a dump requested at level None
\* reaches the sink exactly when Info is enabled by the tag's threshold.
C24_OtherLevelsAsInfo ==
    buf_lines > 0 =>
        /\ buf_level \in {ULOG_ERROR, ULOG_WARN, ULOG_DEBUG, ULOG_VERBOSE}
                => buf_disp.level = buf_level
        /\ buf_level \in {ULOG_NONE, ULOG_INFO}
                => /\ buf_disp.level = ULOG_INFO
                   /\ buf_disp.letter = "I"
                   /\ buf_disp.sunk = (ULOG_INFO <= buf_disp.thr)
        /\ buf_disp.letter = "I" <=> buf_disp.level = ULOG_INFO

\* a dump at level None is dropped under a threshold of Warn
C24_Witness ==
    /\ buf_level = ULOG_NONE
    /\ buf_lines = 2
    /\ buf_disp.level = ULOG_INFO
    /\ buf_disp.thr = ULOG_WARN
    /\ ~buf_disp.sunk
    /\ buf_sunk = 1

RECURSIVE Decimal(_)
Decimal(v) ==
    IF v[1] = 0 /\ v[2] < 10 THEN <<Digit(v[2])>>
    ELSE Decimal(Div10(v)) \o <<Digit(Mod10(v))>>

\* C20: in Pre-Scheduler state the wall-clock string is exactly the decimal
\* representation of the early timestamp v, "0" for 0 and without leading
\* zero otherwise, NUL-terminated within the 18 bytes, whatever the buffer
\* held before.
C20_EarlyDecimal ==
    clock_pre =>
        /\ clock_ret = Decimal(clock_v)
        /\ Len(clock_ret) < BufferSize
        /\ buffer[Len(clock_ret) + 1] = NUL
        /\ clock_v = U32(0, 0) => clock_ret = <<48>>
        /\ clock_v # U32(0, 0) => clock_ret[1] # 48

\* 4294967295 has just been rendered over what an earlier call left
C20_Witness ==
    /\ clock_pre
    /\ clock_v = U32(65535, 65535)
    /\ clock_ret = <<52, 50, 57, 52, 57, 54, 55, 50, 57, 53>>
    /\ \E i \in 12 .. BufferSize : buffer[i] # NUL

\* C22: in Scheduler-Active state, under any interleaving, the string a
\* caller reads through the pointer its wall-clock call returned is the
\* complete text formatted by that call from the time it read, never the
\* text of another context's call nor a mixture of two.
C22_ReadsOwnText ==
    \A c \in Ctx : st_read[c].done => st_read[c].text = TimeText(st_t[c])

=============================================================================
